---- MODULE Spec2Model ----
(***************************************************************************)
(* A model of src/opaque.c (libsphinx): the OPAQUE registration and login  *)
(* entry points, the envelope seal/open, the triple Diffie-Hellman key     *)
(* schedule and the transcript authenticators.                             *)
(*                                                                         *)
(* Memory is modelled as sequences of cells.  One cell stands for one      *)
(* 32-byte block (a scalar, a point, a nonce, a hash, a MAC, one block of  *)
(* HKDF output); every length of the code is counted in that unit, so the  *)
(* inputs extra, ClrEnv, key, pw, ids and infos are byte strings whose     *)
(* lengths are whole blocks.  The packed uint64_t extra_len is one cell.   *)
(* The cryptographic primitives of libsodium are modelled symbolically:    *)
(* a hash or MAC is the term of its inputs, so two of them are equal       *)
(* exactly when their inputs are; the two groups are Z_Q written           *)
(* additively, so g^a is the residue a and the identity is 0.              *)
(***************************************************************************)
EXTENDS Integers, Sequences, FiniteSets, TLC

(* ------------------------------ bounds -------------------------------- *)
MaxExtra == 1
MaxClrEnv == 1

(* --------------------------- cells and groups ------------------------- *)
\* the order of the two prime-order groups (ristretto255, X25519 subgroup)
Q == 5
\* the values the CSPRNG yields at each draw site: the long-term keys and
\* the ephemeral keys are a fixed vector, the client's blinding factor r and
\* nonceU vary from session to session (2 and 3 are inverses mod Q)
Draw_k_s == {2}
Draw_p_s == {3}
Draw_p_u == {4}
Draw_x_s == {2}
Draw_r == {2, 3}
Draw_x_u == {2}

Sc(n) == <<"sc", n>>
PtX(n) == <<"X25519", n>>
PtR(n) == <<"ristretto", n>>
Byte(s) == <<"byte", s>>
Nonce(s) == <<"nonce", s>>
U64(n) == <<"u64", n>>
\* a cell of a buffer that has not been written
Junk(s) == <<"junk", s>>
ZeroCell == <<"zero", 0>>
\* what an output buffer of the caller holds before a call
Untouched == Junk("caller")
\* 32 bytes that are not the canonical encoding of any group element
NonCanonical == <<"noncanonical", 0>>
\* a cell with at least one bit changed
Flip(c) == IF c[1] = "flip" THEN c[2] ELSE <<"flip", c>>

IsSc(c) == c[1] = "sc"
IsPtX(c) == c[1] = "X25519"
IsPtR(c) == c[1] = "ristretto"

\* reading len cells at offset off of buf; cells beyond the buffer are not
\* the caller's and hold nothing the protocol wrote
Rd(buf, i) == IF i <= Len(buf) THEN buf[i] ELSE Junk("oob")
SubBuf(buf, off, len) == [i \in 1..len |-> Rd(buf, off + i)]
\* memcpy(buf + off, src, Len(src)); buf is at least off cells long
Wr(buf, off, src) ==
  [i \in 1..(IF Len(buf) > off + Len(src) THEN Len(buf) ELSE off + Len(src)) |->
     IF i > off /\ i <= off + Len(src) THEN src[i - off] ELSE buf[i]]
Fill(n, c) == [i \in 1..n |-> c]

(* ------------------------- libsodium primitives ----------------------- *)
crypto_scalarmult_base(s) ==
  IF IsSc(s) THEN PtX(s[2] % Q) ELSE <<"X25519mul", s, PtX(1)>>

\* X25519: [ret |-> 0 or -1, out |-> the product]; -1 when the product is
\* the all-zero point
crypto_scalarmult(s, P) ==
  IF IsSc(s) /\ IsPtX(P)
    THEN [ret |-> IF (s[2] * P[2]) % Q = 0 THEN -1 ELSE 0,
          out |-> PtX((s[2] * P[2]) % Q)]
    ELSE [ret |-> 0, out |-> <<"X25519mul", s, P>>]

\* 1 when the 32 bytes decode to a group element; the all-zero string is
\* the canonical encoding of the identity and decodes
crypto_core_ristretto255_is_valid_point(P) ==
  IF IsPtR(P) THEN 1 ELSE 0

\* -1 when P does not decode or the product is the identity
crypto_scalarmult_ristretto255(s, P) ==
  IF IsSc(s) /\ IsPtR(P) /\ (s[2] * P[2]) % Q # 0
    THEN [ret |-> 0, out |-> PtR((s[2] * P[2]) % Q)]
    ELSE [ret |-> -1, out |-> PtR(0)]

crypto_core_ristretto255_scalar_invert(s) ==
  IF IsSc(s) /\ s[2] % Q # 0
    THEN [ret |-> 0, out |-> Sc(CHOOSE x \in 1..(Q - 1) : (x * s[2]) % Q = 1)]
    ELSE [ret |-> -1, out |-> Sc(0)]

crypto_hash_sha256(m) == <<"sha256", m>>
crypto_auth_hmacsha256(m, k) == <<"hmac", k, m>>
\* 0 when the tag is the MAC of m under k, -1 otherwise
crypto_auth_hmacsha256_verify(tag, m, k) ==
  IF tag = crypto_auth_hmacsha256(m, k) THEN 0 ELSE -1
crypto_generichash(m, key) == <<"blake2b", key, m>>
crypto_pwhash(rw0) == <<"argon2", rw0>>
crypto_kdf_hkdf_sha256_extract(ikm) == <<"hkdf_extract", ikm>>
\* HKDF-Expand: n blocks of output keyed by prk and ctx
crypto_kdf_hkdf_sha256_expand(n, ctx, prk) ==
  [i \in 1..n |-> <<"hkdf_expand", prk, ctx, i>>]

\* c[i] = a[i] ^ b[i]
Xor(a, b) ==
  IF a[1] = "xor" /\ a[3] = b THEN a[2] ELSE <<"xor", a, b>>

(* ------------------------------ layouts ------------------------------- *)
\* sizeof(Opaque_Blob): nonce, p_u, P_u, P_s, extra_or_mac
sizeof_Opaque_Blob == 5
\* offset of c in Opaque_UserRecord: k_s, p_s, P_u, P_s, extra_len
rec_c == 5
\* offset of c in Opaque_ServerSession: beta, X_s, nonceS, auth, extra_len
resp_c == 5
\* crypto_scalarmult_SCALARBYTES + crypto_scalarmult_BYTES * 2
SecEnvFixed == 3
\* the length of the sealed envelope nonce | SecEnv | ClrEnv | tag
EnvelopeLen(extra_len, ClrEnv_len) == 1 + (SecEnvFixed + extra_len) + ClrEnv_len + 1

(* ------------------------- caller-supplied inputs --------------------- *)
NullPtr == [null |-> TRUE, len |-> 0, bytes |-> <<>>]
Ptr(bytes) == [null |-> FALSE, len |-> Len(bytes), bytes |-> bytes]
\* a buffer of len cells to write to
Buf(len) == [null |-> FALSE, len |-> len, bytes |-> <<>>]
NoIds == [idU |-> <<>>, idS |-> <<>>]
NoInfos == [null |-> TRUE, info1 |-> <<>>, info2 |-> <<>>, einfo2 |-> <<>>,
            info3 |-> <<>>, einfo3 |-> <<>>]
\* the Opaque_App_Infos a caller passes: none, one with info1, info2 and
\* einfo2, and that one with info3 and einfo3 as well
InfoA == [null |-> FALSE, info1 |-> <<Byte("i1")>>, info2 |-> <<Byte("i2")>>,
          einfo2 |-> <<Byte("e2")>>, info3 |-> <<>>, einfo3 |-> <<>>]
InfoB == [InfoA EXCEPT !.info3 = <<Byte("i3")>>, !.einfo3 = <<Byte("e3")>>]
InfosSet == {NoInfos, InfoA, InfoB}
\* infos with info3 and einfo3 set to NULL
Strip3(infos) == [infos EXCEPT !.info3 = <<>>, !.einfo3 = <<>>]

(* ------------------------------ helpers ------------------------------- *)
\* sphinx_oprf and sphinx_blindPW live in common.c; they follow the OPRF
\* of the specification: hash_to_group, Blind and Finalize steps 2 and 3
hash_to_group(pw) == PtR(1 + (Len(pw) % (Q - 1)))

sphinx_blindPW(pw, r) ==
  LET m == crypto_scalarmult_ristretto255(Sc(r), hash_to_group(pw))
  IN  [ret |-> m.ret, r |-> Sc(r), alpha |-> m.out]

sphinx_oprf(pw, k_s, key) ==
  LET m == crypto_scalarmult_ristretto255(k_s, hash_to_group(pw))
  IN  [ret |-> m.ret, out |-> crypto_generichash(pw \o <<m.out>>, key)]

\* mlock, here and below: the buffer for which sodium_mlock returns -1 in
\* this call, "none" if every lock is granted.  left: the secret buffers
\* that are still locked and hold their contents when the function returns;
\* swap: the buffers that were given secrets although their lock failed.
derive_keys(ikm, info, mlock) ==
  LET prk == crypto_kdf_hkdf_sha256_extract(ikm)
      k == crypto_kdf_hkdf_sha256_expand(5, info, prk)
  IN  [keys |-> [sk |-> k[1], km2 |-> k[2], km3 |-> k[3], ke2 |-> k[4], ke3 |-> k[5]],
       swap |-> IF mlock = "prk" THEN {"prk"} ELSE {}]

calc_info(nonceU, nonceS, ids) ==
  crypto_hash_sha256(<<nonceU, nonceS>> \o ids.idU \o ids.idS)

\* the cells get_xcript feeds to SHA-256, in order
xcript_fed(oprf1, nonceU, epubu, oprf2, envu, nonceS, epubs, infos) ==
  <<oprf1, nonceU>> \o (IF infos.null THEN <<>> ELSE infos.info1)
  \o <<epubu, oprf2>> \o envu \o <<nonceS>>
  \o (IF infos.null THEN <<>> ELSE infos.info2)
  \o <<epubs>>
  \o (IF infos.null THEN <<>> ELSE infos.einfo2 \o infos.info3 \o infos.einfo3)

\* has_state: the caller passed a state to save into; state: its contents
\* before the call.  A SHA-256 state is the sequence of cells fed so far.
get_xcript(has_state, state, oprf1, nonceU, epubu, oprf2, envu, nonceS, epubs, infos) ==
  LET fed == xcript_fed(oprf1, nonceU, epubu, oprf2, envu, nonceS, epubs, infos)
  IN  [xcript |-> crypto_hash_sha256(fed),
       state |-> IF has_state /\ (infos.null \/ ~(infos.einfo3 # <<>> \/ infos.info3 # <<>>))
                   THEN fed ELSE state]

\* the returns of the two 3-DH helpers: sec is locked without a check and
\* unlocked on the last path only
Return3dh(a, b, c, info, mlock) ==
  LET d == derive_keys(<<a.out, b.out, c.out>>, info, mlock)
      sec_swap == IF mlock = "sec" THEN {"sec"} ELSE {}
  IN  IF a.ret # 0 THEN [ret |-> 1, keys |-> d.keys, left |-> {"sec"}, swap |-> {}]
      ELSE IF b.ret # 0 \/ c.ret # 0
        THEN [ret |-> 1, keys |-> d.keys, left |-> {"sec"}, swap |-> sec_swap]
        ELSE [ret |-> 0, keys |-> d.keys, left |-> {}, swap |-> sec_swap \cup d.swap]

\* opaque_server_3dh with the return values of crypto_scalarmult dropped
opaque_server_3dh_unchecked(ix, ex, Ip, Ep, info, mlock) ==
  LET a == crypto_scalarmult(ix, Ep)
      b == crypto_scalarmult(ex, Ip)
      c == crypto_scalarmult(ex, Ep)
      d == derive_keys(<<a.out, b.out, c.out>>, info, mlock)
  IN  [ret |-> 0, keys |-> d.keys, left |-> {}, swap |-> d.swap]

\* keys is written only when ret = 0
opaque_server_3dh(ix, ex, Ip, Ep, info, mlock) ==
  Return3dh(crypto_scalarmult(ix, Ep), crypto_scalarmult(ex, Ip),
            crypto_scalarmult(ex, Ep), info, mlock)

\* opaque_user_3dh with the first two products in the server's order
opaque_user_3dh_sameorder(ix, ex, Ip, Ep, info, mlock) ==
  Return3dh(crypto_scalarmult(ix, Ep), crypto_scalarmult(ex, Ip),
            crypto_scalarmult(ex, Ep), info, mlock)

\* the first two products are swapped with respect to the server's
opaque_user_3dh(ix, ex, Ip, Ep, info, mlock) ==
  Return3dh(crypto_scalarmult(ex, Ip), crypto_scalarmult(ix, Ep),
            crypto_scalarmult(ex, Ep), info, mlock)

\* opaque_envelope with SecEnv copied, not XOR-ed with the pad
opaque_envelope_plain(rwd, SecEnv, ClrEnv, nonce) ==
  LET n == SecEnv.len
      keys == crypto_kdf_hkdf_sha256_expand(n + 2, <<nonce, Byte("EnvU")>>, rwd)
      body == <<nonce>> \o SubSeq(SecEnv.bytes, 1, n) \o SubSeq(ClrEnv.bytes, 1, ClrEnv.len)
  IN  IF (SecEnv.null # (SecEnv.len = 0)) \/ (ClrEnv.null # (ClrEnv.len = 0))
        THEN [ret |-> 1, envelope |-> <<>>, export_key |-> ZeroCell]
        ELSE [ret |-> 0,
              envelope |-> body \o <<crypto_auth_hmacsha256(body, keys[n + 1])>>,
              export_key |-> keys[n + 2]]

\* SecEnv and ClrEnv are pointers with their lengths; nonce is the
\* randombytes draw.  envelope and export_key are what the call writes when
\* ret = 0.
opaque_envelope(rwd, SecEnv, ClrEnv, nonce) ==
  LET n == SecEnv.len
      keys == crypto_kdf_hkdf_sha256_expand(n + 2, <<nonce, Byte("EnvU")>>, rwd)
      c == [i \in 1..n |-> Xor(SecEnv.bytes[i], keys[i])]
      body == <<nonce>> \o c \o SubSeq(ClrEnv.bytes, 1, ClrEnv.len)
  IN  IF (SecEnv.null # (SecEnv.len = 0)) \/ (ClrEnv.null # (ClrEnv.len = 0))
        THEN [ret |-> 1, envelope |-> <<>>, export_key |-> ZeroCell]
        ELSE [ret |-> 0,
              envelope |-> body \o <<crypto_auth_hmacsha256(body, keys[n + 1])>>,
              export_key |-> keys[n + 2]]

\* opaque_envelope_open yielding the authentication key as export_key
opaque_envelope_open_authkey(rwd, envelope, SecEnv, ClrEnv) ==
  LET n == SecEnv.len
      keys == crypto_kdf_hkdf_sha256_expand(n + 2, <<envelope[1], Byte("EnvU")>>, rwd)
      body == SubSeq(envelope, 1, 1 + n + ClrEnv.len)
      tag == envelope[1 + n + ClrEnv.len + 1]
  IN  IF (SecEnv.null # (SecEnv.len = 0)) \/ (ClrEnv.null # (ClrEnv.len = 0))
           \/ crypto_auth_hmacsha256_verify(tag, body, keys[n + 1]) = -1
        THEN [ret |-> 1, SecEnv |-> Fill(n, Junk("buf")), ClrEnv |-> <<>>,
              export_key |-> Untouched]
        ELSE [ret |-> 0,
              SecEnv |-> [i \in 1..n |-> Xor(envelope[1 + i], keys[i])],
              ClrEnv |-> SubSeq(envelope, 1 + n + 1, 1 + n + ClrEnv.len),
              export_key |-> keys[n + 1]]

\* opaque_envelope_open decrypting the fixed part of SecEnv only
opaque_envelope_open_fixed(rwd, envelope, SecEnv, ClrEnv) ==
  LET n == SecEnv.len
      keys == crypto_kdf_hkdf_sha256_expand(n + 2, <<envelope[1], Byte("EnvU")>>, rwd)
      body == SubSeq(envelope, 1, 1 + n + ClrEnv.len)
      tag == envelope[1 + n + ClrEnv.len + 1]
  IN  IF (SecEnv.null # (SecEnv.len = 0)) \/ (ClrEnv.null # (ClrEnv.len = 0))
           \/ crypto_auth_hmacsha256_verify(tag, body, keys[n + 1]) = -1
        THEN [ret |-> 1, SecEnv |-> Fill(n, Junk("buf")), ClrEnv |-> <<>>,
              export_key |-> Untouched]
        ELSE [ret |-> 0,
              SecEnv |-> [i \in 1..n |-> IF i <= SecEnvFixed
                                           THEN Xor(envelope[1 + i], keys[i])
                                           ELSE envelope[1 + i]],
              ClrEnv |-> SubSeq(envelope, 1 + n + 1, 1 + n + ClrEnv.len),
              export_key |-> keys[n + 2]]

\* opaque_envelope_open reading ClrEnv at the start of the ciphertext
opaque_envelope_open_shifted(rwd, envelope, SecEnv, ClrEnv) ==
  LET n == SecEnv.len
      keys == crypto_kdf_hkdf_sha256_expand(n + 2, <<envelope[1], Byte("EnvU")>>, rwd)
      body == SubSeq(envelope, 1, 1 + n + ClrEnv.len)
      tag == envelope[1 + n + ClrEnv.len + 1]
  IN  IF (SecEnv.null # (SecEnv.len = 0)) \/ (ClrEnv.null # (ClrEnv.len = 0))
           \/ crypto_auth_hmacsha256_verify(tag, body, keys[n + 1]) = -1
        THEN [ret |-> 1, SecEnv |-> Fill(n, Junk("buf")), ClrEnv |-> <<>>,
              export_key |-> Untouched]
        ELSE [ret |-> 0,
              SecEnv |-> [i \in 1..n |-> Xor(envelope[1 + i], keys[i])],
              ClrEnv |-> SubSeq(envelope, 1 + 1, 1 + ClrEnv.len),
              export_key |-> keys[n + 2]]

\* opaque_envelope_open without the check of the tag
opaque_envelope_open_unverified(rwd, envelope, SecEnv, ClrEnv) ==
  LET n == SecEnv.len
      keys == crypto_kdf_hkdf_sha256_expand(n + 2, <<envelope[1], Byte("EnvU")>>, rwd)
  IN  IF (SecEnv.null # (SecEnv.len = 0)) \/ (ClrEnv.null # (ClrEnv.len = 0))
        THEN [ret |-> 1, SecEnv |-> Fill(n, Junk("buf")), ClrEnv |-> <<>>,
              export_key |-> Untouched]
        ELSE [ret |-> 0,
              SecEnv |-> [i \in 1..n |-> Xor(envelope[1 + i], keys[i])],
              ClrEnv |-> SubSeq(envelope, 1 + n + 1, 1 + n + ClrEnv.len),
              export_key |-> keys[n + 2]]

\* envelope: the cells at the envelope pointer, as far as the call reads;
\* SecEnv and ClrEnv: the buffers to write to, with their lengths.
\* When ret # 0 nothing was written: SecEnv is the caller's buffer as it
\* was (the locked stack buffer of opaque_session_usr_finish), export_key
\* the caller's export_key.
opaque_envelope_open(rwd, envelope, SecEnv, ClrEnv) ==
  LET n == SecEnv.len
      keys == crypto_kdf_hkdf_sha256_expand(n + 2, <<envelope[1], Byte("EnvU")>>, rwd)
      body == SubSeq(envelope, 1, 1 + n + ClrEnv.len)
      tag == envelope[1 + n + ClrEnv.len + 1]
  IN  IF (SecEnv.null # (SecEnv.len = 0)) \/ (ClrEnv.null # (ClrEnv.len = 0))
        THEN [ret |-> 1, SecEnv |-> Fill(n, Junk("buf")), ClrEnv |-> <<>>,
              export_key |-> Untouched]
      ELSE IF crypto_auth_hmacsha256_verify(tag, body, keys[n + 1]) = -1
        THEN [ret |-> 1, SecEnv |-> Fill(n, Junk("buf")), ClrEnv |-> <<>>,
              export_key |-> Untouched]
        ELSE [ret |-> 0,
              SecEnv |-> [i \in 1..n |-> Xor(envelope[1 + i], keys[i])],
              ClrEnv |-> SubSeq(envelope, 1 + n + 1, 1 + n + ClrEnv.len),
              export_key |-> keys[n + 2]]

(* ---------------------------- entry points ---------------------------- *)
\* OPAQUE_MAX_EXTRA_BYTES of opaque.h (1 KiB), in blocks
OPAQUE_MAX_EXTRA_BYTES == 32

u64(c) == IF c[1] = "u64" THEN c[2] ELSE OPAQUE_MAX_EXTRA_BYTES + 1

\* rw0 := MAC of pw | beta^(1/r) under key, then rw := pwhash(rw0): the
\* common part of opaque_session_usr_finish and
\* opaque_private_init_usr_respond after the check of beta.
\* user_rw_unblinded is the same with beta taken as it is, not beta^(1/r).
\* the buffers user_rw locks, in the order of the code; each lock is checked
RwLocks == {"ir", "h0", "state", "rw0", "rw"}

user_rw_unblinded(pw, r, beta, key, mlock) ==
  [ret |-> IF mlock \in RwLocks THEN -1 ELSE 0,
   step |-> IF mlock \in RwLocks THEN "mlock" ELSE "ok",
   rw |-> crypto_pwhash(crypto_generichash(pw \o <<beta>>, key))]

\* step: "mlock" when a lock failed, "oprf" when the inversion of r or the
\* multiplication failed; every buffer locked so far is unlocked on each
\* of these returns
user_rw(pw, r, beta, key, mlock) ==
  LET ir == crypto_core_ristretto255_scalar_invert(r)
      h0 == crypto_scalarmult_ristretto255(ir.out, beta)
      step == IF mlock = "ir" THEN "mlock"
              ELSE IF ir.ret # 0 THEN "oprf"
              ELSE IF mlock = "h0" THEN "mlock"
              ELSE IF h0.ret # 0 THEN "oprf"
              ELSE IF mlock \in {"state", "rw0", "rw"} THEN "mlock"
              ELSE "ok"
  IN  [ret |-> IF step = "ok" THEN 0 ELSE -1,
       step |-> step,
       rw |-> crypto_pwhash(crypto_generichash(pw \o <<h0.out>>, key))]

\* rnd: the draws [k_s, p_s, p_u, nonce]; rec0, export_key0: the caller's
\* buffers before the call; the locks of rw0 and rw are checked
opaque_init_srv(pw, extra, key, ClrEnv, rnd, mlock, rec0, export_key0) ==
  LET k_s == Sc(rnd.k_s)
      oprf == sphinx_oprf(pw, k_s, key)
      rw == crypto_pwhash(oprf.out)
      p_s == Sc(rnd.p_s)
      p_u == Sc(rnd.p_u)
      P_s == crypto_scalarmult_base(p_s)
      P_u == crypto_scalarmult_base(p_u)
      plain == Wr(Wr(rec0, 0, <<k_s, p_s, P_u, P_s, U64(Len(extra))>>),
                  rec_c + 1, <<p_u, P_u, P_s>> \o extra)
      env == opaque_envelope(rw, Ptr(SubBuf(plain, rec_c + 1, SecEnvFixed + Len(extra))),
                             ClrEnv, rnd.nonce)
  IN  IF mlock = "rw0" \/ oprf.ret # 0 \/ mlock = "rw"
        THEN [ret |-> -1, rec |-> Wr(rec0, 0, <<k_s>>), export_key |-> export_key0,
              left |-> {}]
      ELSE IF env.ret # 0
        \* rw is not unlocked on this return
        THEN [ret |-> -1, rec |-> plain, export_key |-> export_key0, left |-> {"rw"}]
        ELSE [ret |-> 0, rec |-> Wr(plain, rec_c, env.envelope),
              export_key |-> env.export_key, left |-> {}]

opaque_session_usr_start(pw, rnd) ==
  LET b == sphinx_blindPW(pw, rnd.r)
      x_u == Sc(rnd.x_u)
  IN  [ret |-> IF b.ret # 0 THEN -1 ELSE 0,
       \* Opaque_UserSession_Secret: r, x_u, nonceU, alpha
       sec |-> <<b.r, x_u, rnd.nonceU, b.alpha>>,
       \* Opaque_UserSession: alpha, X_u, nonceU
       pub |-> <<b.alpha, crypto_scalarmult_base(x_u), rnd.nonceU>>]

\* rnd: the draws [x_s, nonceS]; resp0, sk0, km30, state0: the caller's
\* buffers before the call
opaque_session_srv(pub, rec, ids, infos, rnd, mlock, resp0, sk0, km30, state0) ==
  LET alpha == pub[1]
      X_u == pub[2]
      nonceU == pub[3]
      x_s == Sc(rnd.x_s)
      beta == crypto_scalarmult_ristretto255(rec[1], alpha)
      X_s == crypto_scalarmult_base(x_s)
      info == calc_info(nonceU, rnd.nonceS, ids)
      dh == opaque_server_3dh(rec[2], x_s, rec[3], X_u, info, mlock)
      extra_len == u64(rec[5])
      resp1 == Wr(resp0, 0, <<beta.out>>)
      resp3 == Wr(resp0, 0, <<beta.out, X_s, rnd.nonceS>>)
      resp5 == Wr(Wr(resp3, resp_c, SubBuf(rec, rec_c, sizeof_Opaque_Blob + extra_len)),
                  4, <<rec[5]>>)
      x == get_xcript(TRUE, state0, alpha, nonceU, X_u, beta.out,
                      SubBuf(resp5, resp_c, extra_len + sizeof_Opaque_Blob),
                      rnd.nonceS, X_s, infos)
      auth == crypto_auth_hmacsha256(x.xcript, dh.keys.km2)
      fail == [ret |-> -1, resp |-> resp0, sk |-> sk0, km3 |-> km30, state |-> state0,
               left |-> {}, swap |-> {}]
  IN  IF crypto_core_ristretto255_is_valid_point(alpha) # 1 THEN fail
      \* the lock of x_s is checked
      ELSE IF mlock = "x_s" THEN fail
      ELSE IF beta.ret # 0 THEN [fail EXCEPT !.resp = resp1]
      \* the lock of keys is not checked
      ELSE IF dh.ret # 0
        THEN [fail EXCEPT !.resp = resp3, !.left = dh.left, !.swap = dh.swap]
        ELSE [ret |-> 0, resp |-> Wr(resp5, 3, <<auth>>),
              sk |-> dh.keys.sk, km3 |-> dh.keys.km3, state |-> x.state,
              left |-> {},
              swap |-> dh.swap \cup (IF mlock = "keys" THEN {"keys"} ELSE {})]

\* the envelope check of opaque_session_usr_finish, and the same check
\* left out
envelope_rejected_never(open) == FALSE

envelope_rejected(open) == open.ret # 0

\* out0: the caller's output buffers [sk, extra, rwd, auth, ClrEnv,
\* export_key] before the call; ClrEnv: the pointer and length passed;
\* step names the return statement taken
\* opaque_session_usr_finish, given what its two calls of get_xcript read
\* of *infos: infos2 at line 729, infos3 at line 747
usr_finish_reading(pw, resp, sec, key, ids, infos2, infos3, ClrEnv, mlock, out0) ==
  LET beta == Rd(resp, 1)
      X_s == Rd(resp, 2)
      nonceS == Rd(resp, 3)
      urw == user_rw(pw, sec[1], beta, key, mlock)
      extra_len == u64(Rd(resp, 5))
      open == opaque_envelope_open(urw.rw,
                 SubBuf(resp, resp_c, EnvelopeLen(extra_len, ClrEnv.len)),
                 Buf(SecEnvFixed + extra_len), ClrEnv)
      \* buf + crypto_hash_sha256_BYTES holds p_u, P_u, P_s, extra
      c_p_u == open.SecEnv[1]
      c_P_s == open.SecEnv[3]
      c_extra == SubSeq(open.SecEnv, SecEnvFixed + 1, SecEnvFixed + extra_len)
      out1 == [out0 EXCEPT !.ClrEnv = Wr(out0.ClrEnv, 0, open.ClrEnv),
                           !.export_key = open.export_key]
      out2 == [out1 EXCEPT !.rwd = crypto_generichash(<<urw.rw>>, <<Byte("rwd")>>)]
      info == calc_info(sec[3], nonceS, ids)
      dh == opaque_user_3dh(c_p_u, sec[2], c_P_s, X_s, info, mlock)
      X_u == crypto_scalarmult_base(sec[2])
      envu == SubBuf(resp, resp_c, extra_len + sizeof_Opaque_Blob)
      x2 == get_xcript(FALSE, <<>>, sec[4], sec[3], X_u, beta, envu, nonceS, X_s, infos2)
      x3 == get_xcript(FALSE, <<>>, sec[4], sec[3], X_u, beta, envu, nonceS, X_s, infos3)
      \* the lock of keys is not checked
      swap == dh.swap \cup (IF mlock = "keys" THEN {"keys"} ELSE {})
      fail == [ret |-> -1, step |-> "none", out |-> out0, left |-> {}, swap |-> {}]
  IN  IF crypto_core_ristretto255_is_valid_point(beta) # 1
        THEN [fail EXCEPT !.step = "beta"]
      ELSE IF urw.ret # 0
        THEN [fail EXCEPT !.step = urw.step]
      ELSE IF extra_len > OPAQUE_MAX_EXTRA_BYTES
        THEN [fail EXCEPT !.step = "extra_len"]
      \* the lock of buf is checked
      ELSE IF mlock = "buf"
        THEN [fail EXCEPT !.step = "mlock"]
      ELSE IF envelope_rejected(open)
        THEN [fail EXCEPT !.step = "envelope"]
      ELSE IF dh.ret # 0
        THEN [fail EXCEPT !.step = "3dh", !.out = out2, !.left = dh.left,
                          !.swap = dh.swap]
      ELSE IF crypto_auth_hmacsha256_verify(Rd(resp, 4), x2.xcript, dh.keys.km2) # 0
        THEN [fail EXCEPT !.step = "auth", !.out = [out2 EXCEPT !.rwd = ZeroCell],
                          !.swap = swap]
        ELSE [ret |-> 0, step |-> "ok",
              out |-> [out2 EXCEPT
                         !.sk = dh.keys.sk,
                         !.auth = crypto_auth_hmacsha256(x3.xcript, dh.keys.km3),
                         !.extra = Wr(out0.extra, 0, c_extra)],
              left |-> {}, swap |-> swap]

\* info3 and einfo3 are set to NULL in *infos around the first call of
\* get_xcript (lines 723-733) and are back for the second
opaque_session_usr_finish(pw, resp, sec, key, ids, infos, ClrEnv, mlock, out0) ==
  usr_finish_reading(pw, resp, sec, key, ids, Strip3(infos), infos, ClrEnv, mlock, out0)

\* what crypto_hash_sha256_final leaves of the state it finalized: libsodium
\* wipes it, so that it is no longer the state of any transcript
FinalizedState == <<ZeroCell>>

\* opaque_session_server_auth with the result of the verification dropped
opaque_session_server_auth_unchecked(km3, state, authU, infos) ==
  [ret |-> 0, state |-> FinalizedState]

\* opaque_session_server_auth working on a copy of the caller's state
opaque_session_server_auth_copy(km3, state, authU, infos) ==
  LET fed == state \o (IF infos.null THEN <<>> ELSE infos.info3 \o infos.einfo3)
  IN  [ret |-> crypto_auth_hmacsha256_verify(authU, crypto_hash_sha256(fed), km3),
       state |-> state]

\* [ret, state]: the state is updated and finalized in place
opaque_session_server_auth(km3, state, authU, infos) ==
  LET fed == state \o (IF infos.null THEN <<>> ELSE infos.info3 \o infos.einfo3)
  IN  [ret |-> crypto_auth_hmacsha256_verify(authU, crypto_hash_sha256(fed), km3),
       state |-> FinalizedState]

opaque_private_init_usr_start(pw, r) == sphinx_blindPW(pw, r)

\* rnd: the draws [k_s, p_s]; sec0, pub0: the caller's buffers
opaque_private_init_srv_respond(alpha, rnd, sec0, pub0) ==
  LET k_s == Sc(rnd.k_s)
      p_s == Sc(rnd.p_s)
      beta == crypto_scalarmult_ristretto255(k_s, alpha)
  IN  IF crypto_core_ristretto255_is_valid_point(alpha) # 1
        THEN [ret |-> -1, sec |-> sec0, pub |-> pub0]
      ELSE IF beta.ret # 0
        THEN [ret |-> -1, sec |-> Wr(sec0, 1, <<k_s>>), pub |-> Wr(pub0, 0, <<beta.out>>)]
        \* Opaque_RegisterSec: p_s, k_s; Opaque_RegisterPub: beta, P_s
        ELSE [ret |-> 0, sec |-> <<p_s, k_s>>,
              pub |-> <<beta.out, crypto_scalarmult_base(p_s)>>]

\* rnd: the draws [p_u, nonce]; rec0, rwd0, export_key0: the caller's buffers
opaque_private_init_usr_respond(pw, r, pub, extra, key, ClrEnv, rnd, mlock, rec0, rwd0, export_key0) ==
  LET urw == user_rw(pw, r, pub[1], key, mlock)
      p_u == Sc(rnd.p_u)
      P_u == crypto_scalarmult_base(p_u)
      plain == Wr(Wr(Wr(rec0, 2, <<P_u>>), 4, <<U64(Len(extra))>>),
                  rec_c + 1, <<p_u, P_u, pub[2]>> \o extra)
      env == opaque_envelope(urw.rw, Ptr(SubBuf(plain, rec_c + 1, SecEnvFixed + Len(extra))),
                             ClrEnv, rnd.nonce)
  IN  IF crypto_core_ristretto255_is_valid_point(pub[1]) # 1 \/ urw.ret # 0
        THEN [ret |-> -1, rec |-> rec0, rwd |-> rwd0, export_key |-> export_key0,
              left |-> {}]
      ELSE IF env.ret # 0
        \* rw is not unlocked on this return
        THEN [ret |-> -1, rec |-> plain, rwd |-> rwd0, export_key |-> export_key0,
              left |-> {"rw"}]
        ELSE [ret |-> 0, rec |-> Wr(plain, rec_c, env.envelope),
              rwd |-> crypto_generichash(<<urw.rw>>, <<Byte("rwd")>>),
              export_key |-> env.export_key, left |-> {}]

\* opaque_private_init_srv_finish copying all of the public of step 2, beta
\* and P_s, to the fields P_u and P_s of the record
opaque_private_init_srv_finish_wide(sec, pub, rec) ==
  Wr(Wr(Wr(rec, 0, <<sec[2]>>), 1, <<sec[1]>>), 2, <<pub[1], pub[2]>>)

\* opaque_private_init_srv_finish copying the two fields of the secret in
\* the order of Opaque_RegisterSec, not of Opaque_UserRecord
opaque_private_init_srv_finish_swapped(sec, pub, rec) ==
  Wr(Wr(Wr(rec, 0, <<sec[1]>>), 1, <<sec[2]>>), 3, <<pub[2]>>)

opaque_private_init_srv_finish(sec, pub, rec) ==
  Wr(Wr(Wr(rec, 0, <<sec[2]>>), 1, <<sec[1]>>), 3, <<pub[2]>>)

(* ------------------------- the environment's inputs ------------------- *)
\* the passwords a user registers, and those a login may be tried with
RegPWs == {<<Byte("p")>>}
PWs == RegPWs \cup {<<Byte("p"), Byte("!")>>}
Keys == {<<>>, <<Byte("k")>>}
\* an extra one block longer than OPAQUE_MAX_EXTRA_BYTES
OverMaxExtra == [i \in 1..(OPAQUE_MAX_EXTRA_BYTES + 1) |-> Byte("x")]
\* the extras a user registers: short ones, one of exactly
\* OPAQUE_MAX_EXTRA_BYTES and the one above it
Extras ==
  {[i \in 1..n |-> Byte("x")] : n \in (0..MaxExtra) \cup {OPAQUE_MAX_EXTRA_BYTES}}
    \cup {OverMaxExtra}
ClrEnvs == {NullPtr} \cup {Ptr([i \in 1..n |-> Byte("c")]) : n \in 1..MaxClrEnv}
\* ClrEnv == NULL with ClrEnv_len # 0, which opaque_envelope rejects
BadClrEnv == [null |-> TRUE, len |-> 1, bytes |-> <<>>]
\* the ClrEnv output buffer of opaque_session_usr_finish and its length
ClrEnvBufs == {NullPtr} \cup {[null |-> FALSE, len |-> n, bytes |-> <<>>] : n \in 1..MaxClrEnv}
\* the identities the server is given, and those the client may be given
SrvIds == {[idU |-> <<Byte("u")>>, idS |-> <<Byte("s")>>]}
IdsSet == SrvIds \cup {[idU |-> <<Byte("u"), Byte("s")>>, idS |-> <<>>],
                        [idU |-> <<Byte("u")>>, idS |-> <<Byte("S")>>]}
Draw_nonceU == {Nonce("n1"), Nonce("n2")}
Draw_nonceS == {Nonce("n3")}
Draw_nonce == {Nonce("n4")}
\* the buffers each entry point locks, and "none" for no failing lock
InitSrvLocks == {"none", "rw0", "rw"}
PrivLocks == {"none"} \cup RwLocks
SrvLocks == {"none", "x_s", "keys", "sec", "prk"}
FinLocks == {"none", "buf", "keys", "sec", "prk"} \cup RwLocks
\* what a buffer the caller allocated holds before it is written
UninitCells == {ZeroCell, Junk("stale")}

VARIABLES
  rec,          \* the user record buffer
  export_key,   \* the export_key buffer of the registration call
  reg,          \* the registration: its progress, inputs and return value,
                \* the failed lock and the buffers left locked
  priv,         \* the private registration: r, alpha, sec, pub, rwd, and rx,
                \* the server's pub as the user receives it
  usr,          \* the client's sessions: their number, pw, sec and pub
  resp,         \* the server response buffer
  srv,          \* opaque_session_srv: inputs, outputs sk and km3, return value
  xcript_state, \* the caller's crypto_hash_sha256_state
  tamper,       \* what was altered on the way, "none" if nothing
  fin,          \* opaque_session_usr_finish: inputs, output buffers, return value
  authU,        \* the client's authenticator as the server receives it
  sauth,        \* opaque_session_server_auth: its infos and return value, and
                \* the return value of a second call on the same state
  pure,         \* the static helpers called on their own: the inputs, the
                \* calls made and what they returned
  thr           \* two threads in opaque_session_usr_finish on one
                \* Opaque_App_Infos: the object, each thread's position,
                \* locals and results

protocol == <<rec, export_key, reg, priv, usr, resp, srv, xcript_state, tamper,
              fin, authU, sauth>>
vars == <<protocol, pure, thr>>

Out0 == [sk |-> Untouched, extra |-> <<>>, rwd |-> Untouched, auth |-> Untouched,
         ClrEnv |-> <<>>, export_key |-> Untouched]

InitProtocol ==
  /\ rec = <<>>
  /\ export_key = Untouched
  /\ reg = [pc |-> "none", flow |-> "none", ret |-> 0, pw |-> <<>>, key |-> <<>>,
            extra |-> <<>>, ClrEnv |-> NullPtr, mlock |-> "none", left |-> {}]
  /\ priv = [r |-> Sc(0), alpha |-> PtR(0), sec |-> <<>>, pub |-> <<>>, rx |-> <<>>,
             rwd |-> Untouched]
  /\ usr = [n |-> 0, ret |-> 0, pw |-> <<>>, sec |-> <<>>, pub |-> <<>>]
  /\ resp = <<>>
  /\ srv = [called |-> FALSE, ret |-> 0, sk |-> Untouched, km3 |-> Untouched,
            ids |-> NoIds, infos |-> NoInfos, sess |-> 0, pub |-> <<>>,
            mlock |-> "none", left |-> {}, swap |-> {}]
  /\ xcript_state = <<Junk("state")>>
  /\ tamper = "none"
  /\ fin = [called |-> FALSE, ret |-> 0, step |-> "none", out |-> Out0,
            pw |-> <<>>, key |-> <<>>, ids |-> NoIds, infos |-> NoInfos,
            ClrEnv |-> NullPtr, sess |-> 0, mlock |-> "none", left |-> {},
            swap |-> {}]
  /\ authU = Untouched
  /\ sauth = [called |-> FALSE, ret |-> 0, infos |-> NoInfos, again |-> FALSE,
              ret2 |-> 0]

\* no helper is called on its own
NoKeys == [sk |-> Untouched, km2 |-> Untouched, km3 |-> Untouched, ke2 |-> Untouched,
           ke3 |-> Untouched]
No3dh == [ret |-> 0, keys |-> NoKeys]
NoSeal == [ret |-> 0, envelope |-> <<>>, export_key |-> Untouched]
NoOpen == [ret |-> 0, SecEnv |-> <<>>, ClrEnv |-> <<>>, export_key |-> Untouched]
PureIdle ==
  [op |-> "none", done |-> {}, p_s |-> 1, x_s |-> 1, p_u |-> 1, x_u |-> 1,
   info |-> ZeroCell, rwd |-> ZeroCell, SecEnv |-> NullPtr, ClrEnv |-> NullPtr,
   nonce |-> ZeroCell, srv3dh |-> No3dh, usr3dh |-> No3dh, seal |-> NoSeal,
   open |-> NoOpen, open_rwd |-> ZeroCell]

\* no thread is in opaque_session_usr_finish
NoThread == [pc |-> "none", einfo3 |-> <<>>, info3 |-> <<>>, infos2 |-> NoInfos,
             infos3 |-> NoInfos, ret |-> 0, auth |-> Untouched]
ThrIdle == [obj |-> NoInfos, orig |-> NoInfos, t |-> <<NoThread, NoThread>>]

Init ==
  /\ InitProtocol
  /\ pure = PureIdle
  /\ thr = ThrIdle

(* --------------------------- deviations -------------------------------- *)
\* A run departs from the honest run in at most one way: a wrong password,
\* key, identity or ClrEnv length given to the client, one altered message,
\* a response replayed against a fresh client session, one sodium_mlock
\* that fails, or an extra longer than OPAQUE_MAX_EXTRA_BYTES.
AtMostOne(n) == n <= 1
B(b) == IF b THEN 1 ELSE 0
\* the number of ways this run has departed from the honest run so far
Deviations ==
  B(usr.n > 0 /\ usr.pw # reg.pw) + B(tamper # "none")
  + B(srv.called /\ usr.n # srv.sess)
  + B(reg.mlock # "none") + B(srv.mlock # "none")
  + B(Len(reg.extra) > OPAQUE_MAX_EXTRA_BYTES)
\* a lock of opaque_session_usr_finish may fail only in a run that has not
\* departed from the honest run before the call
FinLocksNow == IF Deviations = 0 /\ srv.called /\ ~fin.called THEN FinLocks ELSE {"none"}
\* the same once opaque_session_usr_finish has been given its inputs
FinDeviations(pw, key, ids, infos, ClrEnv, mlock) ==
  B(usr.pw # reg.pw \/ pw # reg.pw) + B(tamper # "none") + B(usr.n # srv.sess)
  + B(reg.mlock # "none") + B(srv.mlock # "none") + B(mlock # "none")
  + B(Len(reg.extra) > OPAQUE_MAX_EXTRA_BYTES)
  + B(key # reg.key) + B(ids # srv.ids) + B(Strip3(infos) # Strip3(srv.infos))
  + B(ClrEnv.len # reg.ClrEnv.len)

(* ------------------------------ actions -------------------------------- *)
\* the caller of opaque_init_srv passes a buffer of OPAQUE_USER_RECORD_LEN
\* plus the lengths of extra and ClrEnv
RecLen(extra, ClrEnv) == rec_c + EnvelopeLen(Len(extra), Len(ClrEnv.bytes))

InitSrv(pw, extra, key, ClrEnv, rnd, mlock, u) ==
  /\ reg.pc = "none"
  /\ LET r == opaque_init_srv(pw, extra, key, ClrEnv, rnd, mlock,
                              Fill(RecLen(extra, ClrEnv), u), export_key)
     IN  /\ rec' = r.rec
         /\ export_key' = r.export_key
         /\ reg' = [pc |-> IF r.ret = 0 THEN "done" ELSE "failed", flow |-> "srv",
                    ret |-> r.ret, pw |-> pw, key |-> key, extra |-> extra,
                    ClrEnv |-> ClrEnv, mlock |-> mlock, left |-> r.left]
  /\ UNCHANGED <<pure, thr, priv, usr, resp, srv, xcript_state, tamper, fin, authU, sauth>>
  /\ AtMostOne(Deviations')

PrivUsrStart(pw, r) ==
  /\ reg.pc = "none"
  /\ LET b == opaque_private_init_usr_start(pw, r)
     IN  /\ priv' = [priv EXCEPT !.r = b.r, !.alpha = b.alpha]
         /\ reg' = [reg EXCEPT !.pc = IF b.ret = 0 THEN "p1" ELSE "failed",
                               !.flow = "priv", !.ret = b.ret, !.pw = pw]
  /\ UNCHANGED <<pure, thr, rec, export_key, usr, resp, srv, xcript_state, tamper, fin, authU, sauth>>

PrivSrvRespond(rnd, u) ==
  /\ reg.pc = "p1"
  /\ LET r == opaque_private_init_srv_respond(priv.alpha, rnd, Fill(2, u), Fill(2, u))
     IN  /\ priv' = [priv EXCEPT !.sec = r.sec, !.pub = r.pub, !.rx = r.pub]
         /\ reg' = [reg EXCEPT !.pc = IF r.ret = 0 THEN "p2" ELSE "failed", !.ret = r.ret]
  /\ UNCHANGED <<pure, thr, rec, export_key, usr, resp, srv, xcript_state, tamper, fin, authU, sauth>>

PrivUsrRespond(extra, key, ClrEnv, rnd, mlock, u) ==
  /\ reg.pc = "p2"
  /\ LET r == opaque_private_init_usr_respond(reg.pw, priv.r, priv.rx, extra, key,
                 ClrEnv, rnd, mlock, Fill(RecLen(extra, ClrEnv), u), priv.rwd,
                 export_key)
     IN  /\ rec' = r.rec
         /\ export_key' = r.export_key
         /\ priv' = [priv EXCEPT !.rwd = r.rwd]
         /\ reg' = [reg EXCEPT !.pc = IF r.ret = 0 THEN "p3" ELSE "failed", !.ret = r.ret,
                               !.key = key, !.extra = extra, !.ClrEnv = ClrEnv,
                               !.mlock = mlock, !.left = r.left]
  /\ UNCHANGED <<pure, thr, usr, resp, srv, xcript_state, tamper, fin, authU, sauth>>
  /\ AtMostOne(Deviations')

PrivSrvFinish ==
  /\ reg.pc = "p3"
  /\ rec' = opaque_private_init_srv_finish(priv.sec, priv.pub, rec)
  /\ reg' = [reg EXCEPT !.pc = "done"]
  /\ UNCHANGED <<pure, thr, export_key, priv, usr, resp, srv, xcript_state, tamper, fin, authU, sauth>>

\* a first session, or a fresh one after the server has answered the first
UsrStart(pw, rnd) ==
  /\ reg.pc = "done"
  /\ ~fin.called
  /\ \/ usr.n = 0
     \/ usr.n = 1 /\ srv.called /\ srv.ret = 0
  /\ LET r == opaque_session_usr_start(pw, rnd)
     IN  usr' = [n |-> usr.n + 1, ret |-> r.ret, pw |-> pw, sec |-> r.sec, pub |-> r.pub]
  /\ UNCHANGED <<pure, thr, rec, export_key, reg, priv, resp, srv, xcript_state, tamper, fin,
                 authU, sauth>>
  /\ AtMostOne(Deviations')

\* the caller passes a buffer of OPAQUE_SERVER_SESSION_LEN plus the lengths
\* of extra and ClrEnv
SessionSrv(ids, infos, rnd, mlock, u) ==
  /\ reg.pc = "done"
  /\ usr.n = 1 /\ usr.ret = 0
  /\ ~srv.called
  /\ LET r == opaque_session_srv(usr.pub, rec, ids, infos, rnd, mlock,
                 Fill(resp_c + EnvelopeLen(Len(reg.extra), reg.ClrEnv.len), u),
                 srv.sk, srv.km3, xcript_state)
     IN  /\ resp' = r.resp
         /\ xcript_state' = r.state
         /\ srv' = [called |-> TRUE, ret |-> r.ret, sk |-> r.sk, km3 |-> r.km3,
                    ids |-> ids, infos |-> infos, sess |-> usr.n, pub |-> usr.pub,
                    mlock |-> mlock, left |-> r.left, swap |-> r.swap]
  /\ UNCHANGED <<pure, thr, rec, export_key, reg, priv, usr, tamper, fin, authU, sauth>>
  /\ AtMostOne(Deviations')

UsrFinish(pw, key, ids, infos, ClrEnv, mlock) ==
  /\ srv.called /\ srv.ret = 0
  /\ ~fin.called
  /\ AtMostOne(FinDeviations(pw, key, ids, infos, ClrEnv, mlock))
  /\ LET r == opaque_session_usr_finish(pw, resp, usr.sec, key, ids, infos, ClrEnv,
                                        mlock, Out0)
     IN  /\ fin' = [called |-> TRUE, ret |-> r.ret, step |-> r.step, out |-> r.out,
                    pw |-> pw, key |-> key, ids |-> ids, infos |-> infos,
                    ClrEnv |-> ClrEnv, sess |-> usr.n, mlock |-> mlock,
                    left |-> r.left, swap |-> r.swap]
         /\ authU' = r.out.auth
  /\ UNCHANGED <<pure, thr, rec, export_key, reg, priv, usr, resp, srv, xcript_state, tamper, sauth>>

ServerAuth(infos) ==
  /\ fin.called /\ fin.ret = 0
  /\ ~sauth.called
  /\ LET r == opaque_session_server_auth(srv.km3, xcript_state, authU, infos)
     IN  /\ sauth' = [sauth EXCEPT !.called = TRUE, !.ret = r.ret, !.infos = infos]
         /\ xcript_state' = r.state
  /\ UNCHANGED <<pure, thr, rec, export_key, reg, priv, usr, resp, srv, tamper, fin, authU>>

\* a second call on the state object of the first, with the km3 of the
\* session, the auth_u the client produced and the client's infos
ServerAuthAgain ==
  /\ sauth.called /\ ~sauth.again
  /\ LET r == opaque_session_server_auth(srv.km3, xcript_state, fin.out.auth, fin.infos)
     IN  /\ sauth' = [sauth EXCEPT !.again = TRUE, !.ret2 = r.ret]
         /\ xcript_state' = r.state
  /\ UNCHANGED <<pure, thr, rec, export_key, reg, priv, usr, resp, srv, tamper, fin, authU>>

\* one cell of the sealed envelope of the stored record is altered
TamperRecord(i) ==
  /\ reg.pc = "done" /\ ~srv.called /\ tamper = "none"
  /\ i <= EnvelopeLen(Len(reg.extra), reg.ClrEnv.len)
  /\ rec' = [rec EXCEPT ![rec_c + i] = Flip(@)]
  /\ tamper' = "record"
  /\ UNCHANGED <<pure, thr, export_key, reg, priv, usr, resp, srv, xcript_state, fin, authU, sauth>>
  /\ AtMostOne(Deviations')

\* one cell of the sealed envelope is altered in the server's response
TamperResponse(i) ==
  /\ srv.called /\ srv.ret = 0 /\ ~fin.called /\ tamper = "none"
  /\ i <= EnvelopeLen(Len(reg.extra), reg.ClrEnv.len)
  /\ resp' = [resp EXCEPT ![resp_c + i] = Flip(@)]
  /\ tamper' = "response"
  /\ UNCHANGED <<pure, thr, rec, export_key, reg, priv, usr, srv, xcript_state, fin, authU, sauth>>
  /\ AtMostOne(Deviations')

\* the auth field of the server's response is altered
TamperAuth ==
  /\ srv.called /\ srv.ret = 0 /\ ~fin.called /\ tamper = "none"
  /\ resp' = [resp EXCEPT ![4] = Flip(@)]
  /\ tamper' = "auth"
  /\ UNCHANGED <<pure, thr, rec, export_key, reg, priv, usr, srv, xcript_state, fin, authU, sauth>>
  /\ AtMostOne(Deviations')

\* the client's authenticator is altered before it reaches the server
TamperAuthU ==
  /\ fin.called /\ fin.ret = 0 /\ ~sauth.called /\ tamper = "none"
  /\ authU' = Flip(authU)
  /\ tamper' = "authU"
  /\ UNCHANGED <<pure, thr, rec, export_key, reg, priv, usr, resp, srv, xcript_state, fin, sauth>>
  /\ AtMostOne(Deviations')

\* the group element of field f as the receiver reads it is replaced by v:
\* alpha or X_u of the client's first message, beta or X_s of the response,
\* alpha, beta or P_s of the private registration
Inject(f, v) ==
  \/ /\ f \in {"alpha", "X_u"}
     /\ usr.n = 1 /\ usr.ret = 0 /\ ~srv.called
     /\ usr' = [usr EXCEPT !.pub[IF f = "alpha" THEN 1 ELSE 2] = v]
     /\ UNCHANGED <<pure, thr, resp, priv>>
  \/ /\ f \in {"beta", "X_s"}
     /\ srv.called /\ srv.ret = 0
     /\ resp' = [resp EXCEPT ![IF f = "beta" THEN 1 ELSE 2] = v]
     /\ UNCHANGED <<pure, thr, usr, priv>>
  \/ /\ f = "reg_alpha"
     /\ reg.pc = "p1"
     /\ priv' = [priv EXCEPT !.alpha = v]
     /\ UNCHANGED <<pure, thr, usr, resp>>
  \/ /\ f \in {"reg_beta", "reg_P_s"}
     /\ reg.pc = "p2"
     /\ priv' = [priv EXCEPT !.rx[IF f = "reg_beta" THEN 1 ELSE 2] = v]
     /\ UNCHANGED <<pure, thr, usr, resp>>

XFields == {"X_u", "X_s", "reg_P_s"}
RFields == {"alpha", "beta", "reg_alpha", "reg_beta"}

\* the name under which tamper records bytes that decode to no element
Bad(f) == "bad_" \o f

\* the encoding of the group identity replaces a group element on the way
InjectIdentity(f) ==
  /\ tamper = "none" /\ ~fin.called
  /\ Inject(f, IF f \in XFields THEN PtX(0) ELSE PtR(0))
  /\ tamper' = f
  /\ UNCHANGED <<pure, thr, rec, export_key, reg, srv, xcript_state, fin, authU, sauth>>
  /\ AtMostOne(Deviations')

\* bytes that decode to no group element replace alpha or beta on the way
InjectInvalid(f) ==
  /\ tamper = "none" /\ ~fin.called
  /\ Inject(f, NonCanonical)
  /\ tamper' = Bad(f)
  /\ UNCHANGED <<pure, thr, rec, export_key, reg, srv, xcript_state, fin, authU, sauth>>
  /\ AtMostOne(Deviations')

Next ==
  \/ \E pw \in RegPWs, extra \in Extras, key \in Keys, ClrEnv \in ClrEnvs \cup {BadClrEnv},
        k_s \in Draw_k_s, p_s \in Draw_p_s, p_u \in Draw_p_u, nonce \in Draw_nonce,
        mlock \in InitSrvLocks, u \in UninitCells :
       InitSrv(pw, extra, key, ClrEnv,
               [k_s |-> k_s, p_s |-> p_s, p_u |-> p_u, nonce |-> nonce], mlock, u)
  \/ \E pw \in RegPWs, r \in Draw_r : PrivUsrStart(pw, r)
  \/ \E k_s \in Draw_k_s, p_s \in Draw_p_s, u \in UninitCells :
       PrivSrvRespond([k_s |-> k_s, p_s |-> p_s], u)
  \/ \E extra \in Extras, key \in Keys, ClrEnv \in ClrEnvs \cup {BadClrEnv},
        p_u \in Draw_p_u, nonce \in Draw_nonce, mlock \in PrivLocks,
        u \in UninitCells :
       PrivUsrRespond(extra, key, ClrEnv, [p_u |-> p_u, nonce |-> nonce], mlock, u)
  \/ PrivSrvFinish
  \/ \E pw \in PWs, r \in Draw_r, x_u \in Draw_x_u, nonceU \in Draw_nonceU :
       UsrStart(pw, [r |-> r, x_u |-> x_u, nonceU |-> nonceU])
  \/ \E ids \in SrvIds, infos \in InfosSet, x_s \in Draw_x_s, nonceS \in Draw_nonceS,
        mlock \in SrvLocks, u \in UninitCells :
       SessionSrv(ids, infos, [x_s |-> x_s, nonceS |-> nonceS], mlock, u)
  \/ \E mlock \in FinLocksNow, pw \in PWs, key \in Keys, ids \in IdsSet,
        infos \in InfosSet, ClrEnv \in ClrEnvBufs :
       UsrFinish(pw, key, ids, infos, ClrEnv, mlock)
  \/ \E infos \in InfosSet : ServerAuth(infos)
  \/ ServerAuthAgain
  \/ \E i \in 1..EnvelopeLen(MaxExtra, MaxClrEnv) : TamperRecord(i)
  \/ \E i \in 1..EnvelopeLen(MaxExtra, MaxClrEnv) : TamperResponse(i)
  \/ TamperAuth
  \/ TamperAuthU
  \/ \E f \in XFields \cup RFields : InjectIdentity(f)
  \/ \E f \in RFields : InjectInvalid(f)

Spec == Init /\ [][Next]_vars

(* ------------------- the static helpers on their own ------------------- *)
\* X25519 clamps its scalar, which is then never a multiple of the group
\* order
Scalars == 1..(Q - 1)
PureInfos == {calc_info(Nonce("n1"), Nonce("n3"), ids) : ids \in IdsSet}
PureRwds == {crypto_pwhash(Byte("a")), crypto_pwhash(Byte("b"))}
\* a pointer and a length as the caller may pass them: NULL or not, empty
\* or not
PureSecEnvs == {NullPtr, Ptr(<<>>), [null |-> TRUE, len |-> 1, bytes |-> <<>>],
                Ptr(<<Sc(1)>>), Ptr(<<Sc(1), Byte("x")>>)}
PureClrEnvs == {NullPtr, Ptr(<<>>), BadClrEnv, Ptr(<<Byte("c")>>)}
PureNonces == {Nonce("n4"), Nonce("n5")}

Pure3dhInputs ==
  {[PureIdle EXCEPT !.op = "3dh", !.p_s = p_s, !.x_s = x_s, !.p_u = p_u,
                    !.x_u = x_u, !.info = info] :
     p_s \in Scalars, x_s \in Scalars, p_u \in Scalars, x_u \in Scalars,
     info \in PureInfos}
PureEnvInputs ==
  {[PureIdle EXCEPT !.op = "env", !.rwd = rwd, !.SecEnv = SecEnv, !.ClrEnv = ClrEnv,
                    !.nonce = nonce] :
     rwd \in PureRwds, SecEnv \in PureSecEnvs, ClrEnv \in PureClrEnvs,
     nonce \in PureNonces}

InitPure ==
  /\ InitProtocol
  /\ pure \in Pure3dhInputs \cup PureEnvInputs
  /\ thr = ThrIdle

\* opaque_server_3dh(p_s, x_s, P_u, X_u, info)
Server3dh ==
  /\ pure.op = "3dh" /\ "srv3dh" \notin pure.done
  /\ LET r == opaque_server_3dh(Sc(pure.p_s), Sc(pure.x_s),
                                crypto_scalarmult_base(Sc(pure.p_u)),
                                crypto_scalarmult_base(Sc(pure.x_u)), pure.info, "none")
     IN  pure' = [pure EXCEPT !.done = @ \cup {"srv3dh"},
                              !.srv3dh = [ret |-> r.ret, keys |-> r.keys]]
  /\ UNCHANGED <<protocol, thr>>

\* opaque_user_3dh(p_u, x_u, P_s, X_s, info)
User3dh ==
  /\ pure.op = "3dh" /\ "usr3dh" \notin pure.done
  /\ LET r == opaque_user_3dh(Sc(pure.p_u), Sc(pure.x_u),
                              crypto_scalarmult_base(Sc(pure.p_s)),
                              crypto_scalarmult_base(Sc(pure.x_s)), pure.info, "none")
     IN  pure' = [pure EXCEPT !.done = @ \cup {"usr3dh"},
                              !.usr3dh = [ret |-> r.ret, keys |-> r.keys]]
  /\ UNCHANGED <<protocol, thr>>

\* opaque_envelope(rwd, SecEnv, SecEnv_len, ClrEnv, ClrEnv_len, envelope,
\* export_key)
Seal ==
  /\ pure.op = "env" /\ "seal" \notin pure.done
  /\ pure' = [pure EXCEPT !.done = @ \cup {"seal"},
                          !.seal = opaque_envelope(pure.rwd, pure.SecEnv, pure.ClrEnv,
                                                   pure.nonce)]
  /\ UNCHANGED <<protocol, thr>>

\* opaque_envelope_open on the envelope that was sealed, with buffers of
\* SecEnv_len and ClrEnv_len bytes
Open(rwd) ==
  /\ pure.op = "env" /\ "seal" \in pure.done /\ pure.seal.ret = 0
  /\ "open" \notin pure.done
  /\ pure' = [pure EXCEPT !.done = @ \cup {"open"}, !.open_rwd = rwd,
                          !.open = opaque_envelope_open(rwd, pure.seal.envelope,
                                     [pure.SecEnv EXCEPT !.bytes = <<>>],
                                     [pure.ClrEnv EXCEPT !.bytes = <<>>])]
  /\ UNCHANGED <<protocol, thr>>

NextPure ==
  \/ Server3dh
  \/ User3dh
  \/ Seal
  \/ \E rwd \in PureRwds : Open(rwd)

SpecPure == InitPure /\ [][NextPure]_vars

(* ------------- two threads sharing one Opaque_App_Infos ---------------- *)
\* Each thread finishes a login of its own against the same record; the
\* server answered without info3 and einfo3, which the client sends with
\* its authenticator.  Both threads pass the same Opaque_App_Infos.
ConcPw == <<Byte("p")>>
ConcRec ==
  opaque_init_srv(ConcPw, <<>>, <<>>, NullPtr,
                  [k_s |-> 2, p_s |-> 3, p_u |-> 4, nonce |-> Nonce("n4")], "none",
                  Fill(RecLen(<<>>, NullPtr), ZeroCell), Untouched).rec
ConcIds == CHOOSE ids \in SrvIds : TRUE
ConcUsr(t) ==
  opaque_session_usr_start(ConcPw, [r |-> 2, x_u |-> 2,
                                    nonceU |-> Nonce(IF t = 1 THEN "n1" ELSE "n2")])
ConcResp(t, infos) ==
  opaque_session_srv(ConcUsr(t).pub, ConcRec, ConcIds, Strip3(infos),
                     [x_s |-> 2, nonceS |-> Nonce("n3")], "none",
                     Fill(resp_c + EnvelopeLen(0, 0), ZeroCell), Untouched, Untouched,
                     <<Junk("state")>>).resp
\* the call of thread t, given what its two get_xcript calls read of *infos
ConcFinish(t, infos2, infos3) ==
  usr_finish_reading(ConcPw, ConcResp(t, thr.orig), ConcUsr(t).sec, <<>>, ConcIds,
                     infos2, infos3, NullPtr, "none", Out0)

\* the objects the threads are given: info3 and einfo3 set, with or
\* without the other infos
ConcInfos == {InfoB, [InfoB EXCEPT !.info1 = <<>>, !.info2 = <<>>, !.einfo2 = <<>>]}

InitConc ==
  /\ InitProtocol
  /\ pure = PureIdle
  /\ \E infos \in ConcInfos :
       thr = [obj |-> infos, orig |-> infos,
              t |-> <<[NoThread EXCEPT !.pc = "l723"], [NoThread EXCEPT !.pc = "l723"]>>]

\* line 723: einfo3 = infos->einfo3
Save_einfo3(t) ==
  /\ thr.t[t].pc = "l723"
  /\ thr' = [thr EXCEPT !.t[t].einfo3 = thr.obj.einfo3, !.t[t].pc = "l724"]
  /\ UNCHANGED <<protocol, pure>>

\* line 724: info3 = infos->info3
Save_info3(t) ==
  /\ thr.t[t].pc = "l724"
  /\ thr' = [thr EXCEPT !.t[t].info3 = thr.obj.info3, !.t[t].pc = "l725"]
  /\ UNCHANGED <<protocol, pure>>

\* line 725: infos->einfo3 = NULL
Null_einfo3(t) ==
  /\ thr.t[t].pc = "l725"
  /\ thr' = [thr EXCEPT !.obj.einfo3 = <<>>, !.t[t].pc = "l726"]
  /\ UNCHANGED <<protocol, pure>>

\* line 726: infos->info3 = NULL
Null_info3(t) ==
  /\ thr.t[t].pc = "l726"
  /\ thr' = [thr EXCEPT !.obj.info3 = <<>>, !.t[t].pc = "l729_145"]
  /\ UNCHANGED <<protocol, pure>>

\* get_xcript called at line 729 reads infos->info3 (line 145); info1,
\* info2 and einfo2 are written by nobody
Xcript2_info3(t) ==
  /\ thr.t[t].pc = "l729_145"
  /\ thr' = [thr EXCEPT !.t[t].infos2 = [thr.obj EXCEPT !.einfo3 = <<>>],
                        !.t[t].pc = "l729_146"]
  /\ UNCHANGED <<protocol, pure>>

\* ... and infos->einfo3 (line 146)
Xcript2_einfo3(t) ==
  /\ thr.t[t].pc = "l729_146"
  /\ thr' = [thr EXCEPT !.t[t].infos2.einfo3 = thr.obj.einfo3, !.t[t].pc = "l731"]
  /\ UNCHANGED <<protocol, pure>>

\* line 731: infos->einfo3 = einfo3
Restore_einfo3(t) ==
  /\ thr.t[t].pc = "l731"
  /\ thr' = [thr EXCEPT !.obj.einfo3 = thr.t[t].einfo3, !.t[t].pc = "l732"]
  /\ UNCHANGED <<protocol, pure>>

\* line 732: infos->info3 = info3
Restore_info3(t) ==
  /\ thr.t[t].pc = "l732"
  /\ thr' = [thr EXCEPT !.obj.info3 = thr.t[t].info3, !.t[t].pc = "l734"]
  /\ UNCHANGED <<protocol, pure>>

\* lines 734-739: the server's authenticator is verified over the
\* transcript of line 729; return -1 if it does not verify
VerifyAuth(t) ==
  /\ thr.t[t].pc = "l734"
  /\ LET r == ConcFinish(t, thr.t[t].infos2, thr.t[t].infos2)
     IN  thr' = IF r.step = "ok"
                  THEN [thr EXCEPT !.t[t].pc = "l747_145"]
                  ELSE [thr EXCEPT !.t[t].pc = "done", !.t[t].ret = r.ret]
  /\ UNCHANGED <<protocol, pure>>

\* get_xcript called at line 747 reads infos->info3 (line 145)
Xcript3_info3(t) ==
  /\ thr.t[t].pc = "l747_145"
  /\ thr' = [thr EXCEPT !.t[t].infos3 = [thr.obj EXCEPT !.einfo3 = <<>>],
                        !.t[t].pc = "l747_146"]
  /\ UNCHANGED <<protocol, pure>>

\* ... and infos->einfo3 (line 146); auth is computed at line 748 and the
\* call returns
Xcript3_einfo3(t) ==
  /\ thr.t[t].pc = "l747_146"
  /\ LET infos3 == [thr.t[t].infos3 EXCEPT !.einfo3 = thr.obj.einfo3]
         r == ConcFinish(t, thr.t[t].infos2, infos3)
     IN  thr' = [thr EXCEPT !.t[t].infos3 = infos3, !.t[t].pc = "done",
                            !.t[t].ret = r.ret, !.t[t].auth = r.out.auth]
  /\ UNCHANGED <<protocol, pure>>

NextConc ==
  \E t \in {1, 2} :
    \/ Save_einfo3(t)
    \/ Save_info3(t)
    \/ Null_einfo3(t)
    \/ Null_info3(t)
    \/ Xcript2_info3(t)
    \/ Xcript2_einfo3(t)
    \/ Restore_einfo3(t)
    \/ Restore_info3(t)
    \/ VerifyAuth(t)
    \/ Xcript3_info3(t)
    \/ Xcript3_einfo3(t)

SpecConc == InitConc /\ [][NextConc]_vars

(* ------------------------------- claims -------------------------------- *)
\* the client was given the password, key, identities, infos and ClrEnv
\* length of the registration and of the server's session, and every lock
\* was granted
HonestInputs ==
  /\ fin.called
  /\ usr.pw = reg.pw /\ fin.pw = reg.pw /\ fin.key = reg.key
  /\ fin.ids = srv.ids /\ Strip3(fin.infos) = Strip3(srv.infos)
  /\ fin.ClrEnv.len = reg.ClrEnv.len
  /\ reg.mlock = "none" /\ srv.mlock = "none" /\ fin.mlock = "none"
\* nothing was altered on the way and the response answers this session
HonestRun == HonestInputs /\ tamper = "none" /\ fin.sess = srv.sess
\* an output buffer that holds no key material
IsClean(c) == c = Untouched \/ c = ZeroCell

\* C1: opaque_init_srv followed by the three login steps, all run with the
\* same pw, key, ids and ClrEnv length, succeed and the client's sk equals
\* the server's sk, for every pw, extra, key, ClrEnv and ids.
C1_RegisterLoginAgree ==
  (HonestRun /\ reg.flow = "srv") => (fin.ret = 0 /\ fin.out.sk = srv.sk)

\* C2: a login with a record of the four-step private registration, run
\* with the same pw, key and ids, succeeds: both sides obtain the same sk
\* and the client recovers the registered extra.
C2_PrivateRegisterLogin ==
  (HonestRun /\ reg.flow = "priv") =>
     (fin.ret = 0 /\ fin.out.sk = srv.sk /\ fin.out.extra = reg.extra)

\* C3: with a password that differs from the registered one (all other
\* inputs honest) opaque_session_usr_finish fails at the envelope-open
\* step, before the 3-DH and the server-auth steps, and writes no sk.
C3_WrongPassword ==
  (/\ fin.called /\ fin.pw # reg.pw
   /\ fin.key = reg.key /\ fin.ids = srv.ids /\ fin.infos = srv.infos
   /\ fin.ClrEnv.len = reg.ClrEnv.len /\ tamper = "none" /\ fin.sess = srv.sess)
  => (fin.ret = -1 /\ fin.step = "envelope" /\ fin.out.sk = Untouched)

\* a login whose envelope would open rejects the wrong password at the
\* envelope-open step
C3_Witness ==
  /\ fin.called /\ fin.pw # reg.pw /\ usr.pw = reg.pw /\ fin.key = reg.key
  /\ fin.ids = srv.ids /\ fin.ClrEnv.len = reg.ClrEnv.len /\ reg.ClrEnv.len = 0
  /\ tamper = "none" /\ fin.sess = srv.sess
  /\ fin.ret = -1 /\ fin.step = "envelope"

\* C4: when idU or idS of the server differ in any way from those of the
\* client (all other inputs honest), the client's verification of the
\* server's auth tag fails and the client produces no sk.  Stated for the
\* records without ClrEnv, whose envelope the client can open.
C4_IdentityBinding ==
  (/\ fin.called /\ fin.ids # srv.ids /\ reg.ClrEnv.len = 0
   /\ usr.pw = reg.pw /\ fin.pw = reg.pw /\ fin.key = reg.key
   /\ fin.infos = srv.infos /\ fin.ClrEnv.len = reg.ClrEnv.len
   /\ tamper = "none" /\ fin.sess = srv.sess)
  => (fin.ret = -1 /\ fin.step = "auth" /\ fin.out.sk = Untouched)

\* C5: whenever an entry point returns failure, the caller's output buffers
\* rwd, export_key and sk are untouched or zeroed.
C5_NoOutputOnFailure ==
  /\ reg.pc = "failed" => (IsClean(export_key) /\ IsClean(priv.rwd))
  /\ (srv.called /\ srv.ret # 0) => IsClean(srv.sk)
  /\ (fin.called /\ fin.ret # 0) =>
       (IsClean(fin.out.rwd) /\ IsClean(fin.out.export_key) /\ IsClean(fin.out.sk))

\* C6: after opaque_session_srv the envelope field of the response is the
\* whole sealed envelope of the record, nonce | ciphertext | ClrEnv | tag,
\* of length 32 + (96 + extra_len) + ClrEnv_len + 32, cell for cell.
C6_WholeEnvelopeCopied ==
  (srv.called /\ srv.ret = 0 /\ ~fin.called /\ tamper = "none") =>
     SubBuf(resp, resp_c, EnvelopeLen(Len(reg.extra), reg.ClrEnv.len))
       = SubBuf(rec, rec_c, EnvelopeLen(Len(reg.extra), reg.ClrEnv.len))

\* C7: if a cell of the sealed envelope is altered in the user record or
\* in the server response (all else honest), opaque_session_usr_finish
\* fails at the envelope-open step and writes no sk.
C7_EnvelopeTamper ==
  (HonestInputs /\ tamper \in {"record", "response"} /\ fin.sess = srv.sess)
  => (fin.ret = -1 /\ fin.step = "envelope" /\ fin.out.sk = Untouched)

\* an altered response of a login whose envelope would have opened
C7_Witness ==
  /\ HonestInputs /\ tamper = "response" /\ fin.sess = srv.sess
  /\ reg.ClrEnv.len = 0 /\ fin.ret = -1 /\ fin.step = "envelope"

\* C8: if the auth field of the response is altered (all else honest),
\* opaque_session_usr_finish fails at the server-auth verification and
\* does not write sk.
C8_AuthTamper ==
  (HonestInputs /\ tamper = "auth" /\ fin.sess = srv.sess)
  => (fin.ret = -1 /\ fin.step = "auth" /\ fin.out.sk = Untouched)

\* C9: if auth_u is altered before it reaches the server,
\* opaque_session_server_auth, given the km3 and the saved state of the
\* session, returns failure.
C9_AuthUTamper ==
  (sauth.called /\ tamper = "authU") => sauth.ret = -1

\* an honest login whose auth_u was altered and then rejected by the server
C9_Witness ==
  sauth.called /\ tamper = "authU" /\ HonestInputs /\ sauth.ret = -1

\* the response was made for one session and is given to a later one whose
\* first message differs
Replayed == fin.called /\ fin.sess # srv.sess /\ usr.pub # srv.pub

\* C10 as stated: a replayed response makes opaque_session_usr_finish fail
\* at the server-auth verification and not at an earlier step.  Stated for
\* the records without ClrEnv, whose envelope the client can open.
C10_ReplayFailsAtAuth ==
  (HonestInputs /\ tamper = "none" /\ Replayed /\ reg.ClrEnv.len = 0)
  => (fin.ret = -1 /\ fin.step = "auth")

\* C10 amended: a replayed response makes opaque_session_usr_finish fail
\* without writing sk, no later than the server-auth verification, and at
\* the envelope-open step whenever the fresh alpha (the fresh r) differs
\* from the one the response was made for.
C10_ReplayFails ==
  (HonestInputs /\ tamper = "none" /\ Replayed)
  => /\ fin.ret = -1 /\ fin.out.sk = Untouched
     /\ fin.step \in {"envelope", "auth"}
     /\ usr.pub[1] # srv.pub[1] => fin.step = "envelope"

\* a replay against a session with a fresh r, of a record whose envelope
\* the client can open: the call fails at the envelope-open step
C10_Witness ==
  /\ HonestInputs /\ tamper = "none" /\ Replayed /\ reg.ClrEnv.len = 0
  /\ usr.pub[1] # srv.pub[1] /\ fin.step = "envelope"

\* the envelope bytes of the response that both sides feed to the transcript
SrvEnvU == SubBuf(resp, resp_c, u64(resp[5]) + sizeof_Opaque_Blob)
\* the key bundle opaque_session_srv derived when it drew x_s
SrvKeys(x_s) ==
  opaque_server_3dh(rec[2], Sc(x_s), rec[3], srv.pub[2],
                    calc_info(srv.pub[3], resp[3], srv.ids), "none").keys
\* the cells of the transcript up to X_s and einfo2, without info3 and einfo3
SrvPrefix ==
  xcript_fed(srv.pub[1], srv.pub[3], srv.pub[2], resp[1], SrvEnvU, resp[3],
             resp[2], Strip3(srv.infos))

\* C11: for every infos given to opaque_session_srv, also one with info3 or
\* einfo3 set, the auth field of the response is the HMAC under km2 of the
\* hash of the transcript without info3 and einfo3.
C11_AuthWithoutInfo3 ==
  (srv.called /\ srv.ret = 0 /\ tamper = "none") =>
     \E x_s \in Draw_x_s :
        resp[4] = crypto_auth_hmacsha256(crypto_hash_sha256(SrvPrefix),
                                         SrvKeys(x_s).km2)

\* C12: after every successful opaque_session_srv, whatever infos it was
\* given, the caller's xcript_state is the running hash state of the
\* transcript prefix that ends at X_s and einfo2.
C12_StateSaved ==
  (srv.called /\ srv.ret = 0 /\ tamper = "none" /\ ~sauth.called) =>
     xcript_state = SrvPrefix

\* C13: in an honest login where opaque_session_srv is given info1, info2
\* and einfo2, opaque_session_usr_finish the same with info3 and einfo3, and
\* opaque_session_server_auth info3 and einfo3, the client accepts the
\* server's auth and the server accepts the client's auth_u.
C13_Info3Login ==
  (HonestRun /\ srv.infos = InfoA /\ fin.infos = InfoB) =>
     /\ fin.ret = 0
     /\ (sauth.called /\ sauth.infos = InfoB) => sauth.ret = 0

\* C14: every group element received from the peer is checked before it is
\* used and an invalid one aborts the step: alpha in opaque_session_srv and
\* opaque_private_init_srv_respond, X_u in opaque_session_srv, beta and X_s
\* in opaque_session_usr_finish, beta and P_s in
\* opaque_private_init_usr_respond.
C14_PointsChecked ==
  /\ (tamper \in {"alpha", "X_u", Bad("alpha")} /\ srv.called) => srv.ret = -1
  /\ (tamper \in {"beta", "X_s", Bad("beta")} /\ fin.called) => fin.ret = -1
  /\ (tamper \in {"reg_alpha", Bad("reg_alpha")} /\ reg.pc # "p1")
       => reg.pc = "failed"
  /\ (tamper \in {"reg_beta", "reg_P_s", Bad("reg_beta")} /\ reg.pc # "p2")
       => reg.pc = "failed"

\* C15: in login, if alpha or X_u of the client's first message, or beta or
\* X_s of the server's response, is replaced by the encoding of the group
\* identity, the receiving step returns failure and writes no sk.
C15_IdentityInjection ==
  /\ (tamper \in {"alpha", "X_u"} /\ srv.called) =>
       (srv.ret = -1 /\ srv.sk = Untouched)
  /\ (tamper \in {"beta", "X_s"} /\ fin.called) =>
       (fin.ret = -1 /\ fin.out.sk = Untouched)

\* the identity as X_s, in a login whose envelope opened, stopped the client
\* at the 3-DH step
C15_Witness ==
  tamper = "X_s" /\ fin.called /\ fin.ret = -1 /\ fin.step = "3dh"

\* C16: whenever an entry point has returned, with success or with any
\* error, no secret buffer it locked is left locked and unzeroed: the set
\* of buffers left behind by the registration, by opaque_session_srv and by
\* opaque_session_usr_finish is empty.
C16_SecretsReleased ==
  /\ reg.pc \in {"done", "failed", "p3"} => reg.left = {}
  /\ srv.called => srv.left = {}
  /\ fin.called => fin.left = {}

\* C17: a sodium_mlock that fails makes the entry point return failure, and
\* no secret is placed in the buffer that could not be locked.
C17_LocksChecked ==
  /\ (reg.pc \in {"done", "failed", "p3"} /\ reg.mlock # "none") => reg.ret = -1
  /\ (srv.called /\ srv.mlock # "none") => (srv.ret = -1 /\ srv.swap = {})
  /\ (fin.called /\ fin.mlock # "none") => (fin.ret = -1 /\ fin.swap = {})

\* C18: an extra length above OPAQUE_MAX_EXTRA_BYTES is rejected with
\* failure by every entry point that receives it: by the registration
\* (opaque_init_srv, opaque_private_init_usr_respond) for its extra_len
\* argument, by opaque_session_srv for the record's extra_len and by
\* opaque_session_usr_finish for the response's extra_len.
C18_ExtraLenBounded ==
  Len(reg.extra) > OPAQUE_MAX_EXTRA_BYTES =>
    /\ reg.pc \in {"done", "failed", "p3"} => reg.ret = -1
    /\ srv.called => srv.ret = -1
    /\ fin.called => fin.ret = -1

\* C19: when opaque_session_usr_finish succeeds, the export_key it wrote is
\* the export_key the registration wrote (opaque_init_srv or
\* opaque_private_init_usr_respond).
C19_ExportKeyAgrees ==
  (fin.called /\ fin.ret = 0) => fin.out.export_key = export_key

\* a login succeeded after a private registration with a key, and both
\* calls wrote the same derived export_key
C19_Witness ==
  /\ fin.called /\ fin.ret = 0
  /\ reg.flow # "srv" /\ reg.key # <<>>
  /\ ~IsClean(export_key)
  /\ fin.out.export_key = export_key

\* C20: when opaque_session_usr_finish succeeds for a record registered with
\* an extra of length 1 up to OPAQUE_MAX_EXTRA_BYTES, the extra it wrote is
\* cell for cell the extra given at registration.
C20_ExtraAgrees ==
  (fin.called /\ fin.ret = 0 /\ Len(reg.extra) >= 1) => fin.out.extra = reg.extra

\* a login succeeded for a record whose extra has the maximal length, and
\* the client got the registered extra back
C20_Witness ==
  /\ fin.called /\ fin.ret = 0
  /\ Len(reg.extra) = OPAQUE_MAX_EXTRA_BYTES
  /\ fin.out.extra = reg.extra

\* the rw of the registration, as the server's k_s, pw and key determine it
RegRw == crypto_pwhash(sphinx_oprf(reg.pw, rec[1], reg.key).out)
\* the stored envelope opened with the rw of the registration
RegOpen ==
  opaque_envelope_open(RegRw,
     SubBuf(rec, rec_c, EnvelopeLen(Len(reg.extra), reg.ClrEnv.len)),
     Buf(SecEnvFixed + Len(reg.extra)),
     [null |-> reg.ClrEnv.null, len |-> reg.ClrEnv.len, bytes |-> <<>>])
\* a registration has completed and the stored record has not been altered
Registered == reg.pc = "done" /\ tamper \notin {"record"}

\* C21: after opaque_init_srv has succeeded, and after the four steps of
\* the private registration, the record has P_s = g^p_s, its clear-text P_u
\* is the P_u sealed in its envelope, and its k_s is not zero.
C21_RecordInvariants ==
  Registered =>
    /\ rec[4] = crypto_scalarmult_base(rec[2])
    /\ RegOpen.ret = 0 /\ RegOpen.SecEnv[2] = rec[3]
    /\ IsSc(rec[1]) /\ rec[1] # Sc(0)

\* a private registration has completed with a record that satisfies them
C21_Witness ==
  /\ Registered /\ reg.flow = "priv"
  /\ rec[4] = crypto_scalarmult_base(rec[2])
  /\ RegOpen.ret = 0 /\ RegOpen.SecEnv[2] = rec[3]

\* the rw the user derives in opaque_private_init_usr_respond; there is none
\* before the server's answer of step 2 has arrived
PrivRw ==
  IF priv.rx = <<>> THEN Junk("none")
  ELSE user_rw(reg.pw, priv.r, priv.rx[1], reg.key, "none").rw
\* a cell that is a byte of pw, the user's private key p_u, rw, or a block
\* of the envelope keys expanded from rw
IsUserSecret(c, rw) ==
  \/ \E i \in 1..Len(reg.pw) : c = reg.pw[i]
  \/ \E p \in Draw_p_u : c = Sc(p)
  \/ c = rw
  \/ c[1] = "hkdf_expand" /\ c[2] = rw
\* the record the user hands to the server in step 3 of the private
\* registration, also after the server has filled in its fields
HandedOver == reg.flow = "priv" /\ reg.pc \in {"p3", "done"}

\* C22: in the private registration no value handed to the server, alpha of
\* step 2 or the record of step 3, holds pw, rw, p_u or an envelope key in
\* the clear; p_u is in the record only XOR-ed with the pad expanded from rw.
C22_ServerLearnsNoSecret ==
  /\ (reg.flow = "priv" /\ reg.pc # "none") => ~IsUserSecret(priv.alpha, PrivRw)
  /\ HandedOver =>
       /\ \A i \in 1..Len(rec) : ~IsUserSecret(rec[i], PrivRw)
       /\ tamper # "record" =>
            \E p \in Draw_p_u :
               rec[rec_c + 2] =
                 Xor(Sc(p), crypto_kdf_hkdf_sha256_expand(
                               1, <<rec[rec_c + 1], Byte("EnvU")>>, PrivRw)[1])

\* the record of step 3 has reached the server with p_u under its pad
C22_Witness ==
  /\ HandedOver /\ reg.pc = "p3" /\ Len(reg.extra) = 1
  /\ rec[rec_c + 2][1] = "xor" /\ rec[rec_c + 2][2] \in {Sc(p) : p \in Draw_p_u}

\* the cells fed to the hash of which the MAC tag t authenticates the digest
FedOf(t) == t[3][2]
\* the whole sealed envelope of the stored record
RecEnvelope == SubBuf(rec, rec_c, EnvelopeLen(Len(reg.extra), reg.ClrEnv.len))
\* the canonical transcript of the session for the given infos: alpha,
\* nonceU, info1, X_u, beta, envelope, nonceS, info2, X_s, einfo2, info3,
\* einfo3, the optional fields left out when absent
Canonical(infos) ==
  <<srv.pub[1], srv.pub[3]>> \o infos.info1 \o <<srv.pub[2], resp[1]>>
  \o RecEnvelope \o <<resp[3]>> \o infos.info2 \o <<resp[2]>>
  \o infos.einfo2 \o infos.info3 \o infos.einfo3

\* C23: the transcript hashed for the server's auth and for the client's
\* auth_u is the canonical sequence alpha, nonceU, info1, X_u, beta,
\* envelope, nonceS, info2, X_s, einfo2, info3, einfo3 for the infos given,
\* and in an honest login with the same infos on both sides the client's
\* transcript is the server's, so that the client accepts the server's auth.
C23_Transcript ==
  /\ (srv.called /\ srv.ret = 0 /\ tamper = "none") =>
       FedOf(resp[4]) = Canonical(srv.infos)
  /\ (HonestRun /\ fin.ret = 0) =>
       FedOf(fin.out.auth) = Canonical(fin.infos)
  /\ (HonestRun /\ fin.infos = srv.infos /\ fin.step \in {"auth", "ok"}) =>
       fin.step = "ok"

\* a second run of the registration with the inputs and the RNG outputs of
\* the first, in buffers that held zeros before: the record it produces
RerunRec ==
  {IF reg.flow = "srv"
     THEN opaque_init_srv(reg.pw, reg.extra, reg.key, reg.ClrEnv,
            [k_s |-> k_s, p_s |-> p_s, p_u |-> p_u, nonce |-> nonce], reg.mlock,
            Fill(RecLen(reg.extra, reg.ClrEnv), ZeroCell), Untouched).rec
     ELSE opaque_private_init_srv_finish(priv.sec, priv.pub,
            opaque_private_init_usr_respond(reg.pw, priv.r, priv.rx, reg.extra,
               reg.key, reg.ClrEnv, [p_u |-> p_u, nonce |-> nonce], reg.mlock,
               Fill(RecLen(reg.extra, reg.ClrEnv), ZeroCell), Untouched,
               Untouched).rec)
   : k_s \in Draw_k_s, p_s \in Draw_p_s, p_u \in Draw_p_u, nonce \in Draw_nonce}
\* the same for opaque_session_srv
RerunSrv ==
  {opaque_session_srv(srv.pub, rec, srv.ids, srv.infos,
      [x_s |-> x_s, nonceS |-> nonceS], srv.mlock,
      Fill(resp_c + EnvelopeLen(Len(reg.extra), reg.ClrEnv.len), ZeroCell),
      Untouched, Untouched, <<Junk("state")>>)
   : x_s \in Draw_x_s, nonceS \in Draw_nonceS}

\* C24: a second run of the same entry points with the same inputs and the
\* same RNG outputs produces the same record, the same response and the
\* same session key material, whatever the output buffers held before.
C24_Deterministic ==
  /\ (reg.pc = "done" /\ tamper = "none") => rec \in RerunRec
  /\ (srv.called /\ srv.ret = 0 /\ tamper = "none") =>
       \E r \in RerunSrv : resp = r.resp /\ srv.sk = r.sk /\ srv.km3 = r.km3

\* C25: for all scalars p_s, x_s, p_u, x_u and every info,
\* opaque_server_3dh(p_s, x_s, g^p_u, g^x_u, info) and
\* opaque_user_3dh(p_u, x_u, g^p_s, g^x_s, info) both succeed on the same
\* three-part sec, g^(p_s x_u), g^(x_s p_u), g^(x_s x_u), and so derive the
\* same SK, Km2, Km3, Ke2 and Ke3.
C25_3dhAgree ==
  (pure.op = "3dh" /\ pure.done = {"srv3dh", "usr3dh"}) =>
    /\ pure.srv3dh.ret = 0 /\ pure.usr3dh.ret = 0
    /\ pure.srv3dh.keys = pure.usr3dh.keys
    /\ pure.srv3dh.keys =
         derive_keys(<<PtX((pure.p_s * pure.x_u) % Q), PtX((pure.x_s * pure.p_u) % Q),
                       PtX((pure.x_s * pure.x_u) % Q)>>, pure.info, "none").keys

\* both sides ran on keys for which the first two products differ
C25_Witness ==
  /\ pure.op = "3dh" /\ pure.done = {"srv3dh", "usr3dh"}
  /\ (pure.p_s * pure.x_u) % Q # (pure.x_s * pure.p_u) % Q
  /\ pure.srv3dh.ret = 0 /\ pure.srv3dh.keys = pure.usr3dh.keys
  /\ pure.srv3dh.keys.sk # Untouched

\* C26: for every rw, SecEnv and ClrEnv that opaque_envelope accepts (each
\* NULL with length 0, or not NULL with a length above 0),
\* opaque_envelope_open with the same rw, SecEnv_len and ClrEnv_len opens the
\* envelope that was sealed and returns the same SecEnv, ClrEnv and
\* export_key.
C26_SealOpen ==
  (pure.op = "env" /\ "open" \in pure.done /\ pure.open_rwd = pure.rwd) =>
    /\ pure.open.ret = 0
    /\ pure.open.SecEnv = pure.SecEnv.bytes
    /\ pure.open.ClrEnv = pure.ClrEnv.bytes
    /\ pure.open.export_key = pure.seal.export_key

\* a SecEnv of two blocks and a ClrEnv of one were sealed and opened again
C26_Witness ==
  /\ pure.op = "env" /\ "open" \in pure.done /\ pure.open_rwd = pure.rwd
  /\ pure.SecEnv.len = 2 /\ pure.ClrEnv.len = 1
  /\ pure.open.ret = 0 /\ pure.open.SecEnv = <<Sc(1), Byte("x")>>
  /\ pure.open.ClrEnv = <<Byte("c")>>

\* C27: opaque_private_init_srv_finish writes only the fields k_s, p_s and
\* P_s of the record, from the secret and the public of step 2; P_u,
\* extra_len and the envelope of step 3 keep their contents and the record
\* keeps its length.
C27_FinishFrame ==
  [][(reg.pc = "p3" /\ reg'.pc = "done") =>
       /\ Len(rec') = Len(rec)
       /\ \A i \in 1..Len(rec) : i \notin {1, 2, 4} => rec'[i] = rec[i]
       /\ rec'[1] = priv.sec[2] /\ rec'[2] = priv.sec[1] /\ rec'[4] = priv.pub[2]]_vars

\* the private registration has completed: the record holds the server's
\* k_s, p_s and P_s next to the user's P_u and extra_len
C27_Witness ==
  /\ reg.flow = "priv" /\ reg.pc = "done" /\ tamper = "none"
  /\ rec[1] = priv.sec[2] /\ rec[2] = priv.sec[1] /\ rec[4] = priv.pub[2]
  /\ rec[3] \in {crypto_scalarmult_base(Sc(p)) : p \in Draw_p_u}
  /\ rec[5] = U64(Len(reg.extra))

\* C28: when the sealing step of opaque_init_srv or of
\* opaque_private_init_usr_respond fails, the record buffer left with the
\* caller does not hold the user's private key p_u.
C28_NoPlainKeyOnFailure ==
  (reg.pc = "failed" /\ reg.ClrEnv.null /\ reg.ClrEnv.len # 0) =>
     \A i \in 1..Len(rec) : rec[i] \notin {Sc(p) : p \in Draw_p_u}

\* C30: a saved transcript state authenticates at most once: after one call
\* of opaque_session_server_auth, accepted or rejected, a second call on
\* the same state object with the genuine auth_u, km3 and infos fails.
C30_StateUsedOnce ==
  sauth.again => sauth.ret2 = -1

\* the first call, with info3 and einfo3, accepted the client's auth_u; the
\* second call with the same auth_u, km3 and infos was rejected
C30_Witness ==
  /\ sauth.again /\ sauth.ret = 0 /\ sauth.infos = InfoB /\ fin.infos = InfoB
  /\ tamper = "none" /\ sauth.ret2 = -1

\* C29: when two threads run opaque_session_usr_finish concurrently on one
\* Opaque_App_Infos with info3 and einfo3 set, in every interleaving each
\* call succeeds with the auth_u of a call on its own, computed over the
\* transcript with info3 and einfo3, and after both have returned the
\* object holds its original info3 and einfo3.
C29_SharedInfos ==
  /\ \A t \in {1, 2} :
       thr.t[t].pc = "done" =>
         /\ thr.t[t].ret = 0
         /\ thr.t[t].auth = ConcFinish(t, Strip3(thr.orig), thr.orig).out.auth
  /\ (thr.t[1].pc = "done" /\ thr.t[2].pc = "done") => thr.obj = thr.orig

====
